---- MODULE Spec2Model ----
(***************************************************************************)
(* Longstaff-Schwartz Monte Carlo pricer `lsmc`                            *)
(* (application/Longstaff_Schwartz/deprecated/LSMC.py).                    *)
(*                                                                         *)
(* One call of lsmc(t, X, K, r, payoff_func, type, fit_func, pred_func)    *)
(* is modelled as a state machine whose actions are the consecutive blocks *)
(* of the function body.  The three callbacks are external: what           *)
(* payoff_func returns and what pred_func predicts are nondeterministic    *)
(* inputs; the arguments they are called with are recorded in `calls`.     *)
(*                                                                         *)
(* Arrays keep numpy's 0-based indices: a vector is a function on 0..L-1,  *)
(* a matrix a function on rows 0..R-1 of functions on columns 0..N-1.      *)
(*                                                                         *)
(* Floats.  The time grid, the rate and the payoffs are integers here, so  *)
(* every float the function computes is NaN or v * exp(e) with integers v  *)
(* and e; it is kept as the record [nan, v, e] (v = 0 forces e = 0).  As e *)
(* is transcendental, two such records denote the same real exactly when   *)
(* they are equal.  The price, a mean of sums of such terms, is kept as    *)
(* [nan, terms, den]: (sum of c * exp(e) over <<e, c>> in terms) / den.    *)
(***************************************************************************)
EXTENDS Integers, Sequences, FiniteSets, TLC

VARIABLES
    pc,               \* position in lsmc: start, initiate, loop, price, done, failed
    t_ndim,           \* np.ndim(t)
    t,                \* the time steps (when 1-dimensional)
    X_ndim,           \* np.ndim(X)
    X_len,            \* len(X)
    X_cols,           \* np.shape(X)[1]
    r,                \* risk free rate
    M, N,             \* locals of lsmc
    discount_factor,
    payoff,
    stopping_rule,
    cashflow,
    j,                \* loop variable of the backward sweep
    price,            \* the returned value (once pc = "done")
    err,              \* the exception that ended the call (once pc = "failed")
    calls,            \* history: callback invocations and cashflow row writes
    provisional       \* history: stopping_rule as it was before line 59

vars == <<pc, t_ndim, t, X_ndim, X_len, X_cols, r, M, N, discount_factor, payoff,
          stopping_rule, cashflow, j, price, err, calls, provisional>>

----------------------------------------------------------------------------
(* Bounds of the model and the small sets inputs are drawn from. *)

MaxM == 3
MaxN == 3
MaxCells == 6

PayoffVals == {0, 2, 10}
DtVals == {0, 1}
RVals == {0, 1}
TNdims == {0, 1, 2}
XNdims == {1, 2, 3}

----------------------------------------------------------------------------
(* Float arithmetic. *)

NaN == [nan |-> TRUE, v |-> 0, e |-> 0]

Num(x) == [nan |-> FALSE, v |-> x, e |-> 0]

Exp(x) == [nan |-> FALSE, v |-> 1, e |-> x]

Mul(a, b) ==
    IF a.nan \/ b.nan THEN NaN
    ELSE IF a.v * b.v = 0 THEN Num(0)
    ELSE [nan |-> FALSE, v |-> a.v * b.v, e |-> a.e + b.e]

\* x > y for a number x and a float y of exponent 0: False against NaN
Greater(x, y) == ~y.nan /\ x > y.v

AsInt(b) == IF b THEN 1 ELSE 0

\* what pred_func may predict for one path: below, equal to and above the
\* positive payoffs, and NaN
EVVals == {NaN, Num(-1), Num(2), Num(10)}

Full(rows, cols, x) == [jj \in 0..(rows - 1) |-> [n \in 0..(cols - 1) |-> x]]

Unset == << >>

NoError == [type |-> "", line |-> 0]

----------------------------------------------------------------------------
(* numpy helpers, as lsmc uses them. *)

Length(a) == Cardinality(DOMAIN a)

\* np.diff(t): dt[i] = t[i+1] - t[i]
Diff(a) == [i \in 0..(Length(a) - 2) |-> a[i + 1] - a[i]]

\* a[mask] reads: the indices selected by a boolean mask, in increasing order
RECURSIVE WhereUpTo(_, _)
WhereUpTo(mask, k) ==
    IF k < 0 THEN << >>
    ELSE IF mask[k] THEN Append(WhereUpTo(mask, k - 1), k)
    ELSE WhereUpTo(mask, k - 1)

Where(mask) == WhereUpTo(mask, Length(mask) - 1)

\* row[mask]
Take(row, mask) ==
    LET idx == Where(mask)
    IN  [k \in 0..(Len(idx) - 1) |-> row[idx[k + 1]]]

\* row[mask] = vals
Put(row, mask, vals) ==
    LET idx == Where(mask)
    IN  [n \in DOMAIN row |->
            IF mask[n] THEN vals[(CHOOSE k \in 1..Len(idx) : idx[k] = n) - 1]
            ELSE row[n]]

\* np.cumsum(A, axis=0)
RECURSIVE ColSum(_, _, _)
ColSum(A, jj, n) == IF jj < 0 THEN 0 ELSE A[jj][n] + ColSum(A, jj - 1, n)

CumSum(A) == [jj \in DOMAIN A |-> [n \in DOMAIN A[jj] |-> ColSum(A, jj, n)]]

\* a boolean matrix read as integers (what np.cumsum does to dtype bool)
BoolToInt(A) == [jj \in DOMAIN A |-> [n \in DOMAIN A[jj] |-> AsInt(A[jj][n])]]

\* np.cumprod(a)
RECURSIVE ProdTo(_, _)
ProdTo(a, i) == IF i < 0 THEN Num(1) ELSE Mul(ProdTo(a, i - 1), a[i])

CumProd(a) == [i \in DOMAIN a |-> ProdTo(a, i)]

\* The simulated paths are opaque to lsmc: the entry X[j, n] is stood for by
\* its coordinates, so that X[j, itm] shows which paths reach the estimator.
XRow(jj, cols) == [n \in 0..(cols - 1) |-> <<jj, n>>]

----------------------------------------------------------------------------
(* The expressions of lsmc. *)

\* variant without the assertion of line 24
FailedAssertion_NoLengthCheck(tnd, tt, xnd, xlen) ==
    IF tnd # 1 THEN 22
    ELSE IF xnd # 2 THEN 23
    ELSE 0

\* lines 22-24: the three assertions, in order; 0 when all hold, else the
\* line of the first that fails
FailedAssertion(tnd, tt, xnd, xlen) ==
    IF tnd # 1 THEN 22
    ELSE IF xnd # 2 THEN 23
    ELSE IF xlen # Length(tt) THEN 24
    ELSE 0

\* line 32: discount_factor = np.exp(-r * dt)
DiscountFactor(rate, dt) == [i \in DOMAIN dt |-> Exp((-rate) * dt[i])]

\* variant without line 39: the last row keeps its initial False
TerminalRule_Skipped(payoff_row) == [n \in DOMAIN payoff_row |-> FALSE]

\* line 39: payoff[M, :] > 0
TerminalRule(payoff_row) == [n \in DOMAIN payoff_row |-> payoff_row[n] > 0]

\* line 40: cashflow[M-1, :] = payoff[M, :]
TerminalCashflow(payoff_row) == [n \in DOMAIN payoff_row |-> Num(payoff_row[n])]

\* variant of line 43 selecting every path with payoff >= 0
Itm_NonNegative(payoff_row) == [n \in DOMAIN payoff_row |-> payoff_row[n] >= 0]

\* line 43: itm = payoff[j, :] > 0
Itm(payoff_row) == [n \in DOMAIN payoff_row |-> payoff_row[n] > 0]

\* variant of line 46 reading the cashflow row the step is about to write
FitTargets_RowBelow(cf, df, jj, itm) ==
    LET sel == Take(cf[jj - 1], itm)
    IN  [k \in DOMAIN sel |-> Mul(sel[k], df[jj])]

\* line 46, second argument: cashflow[j, itm] * discount_factor[j]
FitTargets(cf, df, jj, itm) ==
    LET sel == Take(cf[jj], itm)
    IN  [k \in DOMAIN sel |-> Mul(sel[k], df[jj])]

\* variant of line 53 exercising on ties: exercise >= EV_cont
ExerciseDecision_OnTies(exercise, EV_cont) ==
    [k \in DOMAIN exercise |-> Greater(exercise[k], EV_cont[k]) \/ Num(exercise[k]) = EV_cont[k]]

\* line 53: exercise > EV_cont
ExerciseDecision(exercise, EV_cont) ==
    [k \in DOMAIN exercise |-> Greater(exercise[k], EV_cont[k])]

\* line 56: stopping_rule[j-1, :] * payoff[j, :]
StepCashflow(rule_row, payoff_row) ==
    [n \in DOMAIN payoff_row |-> Mul(Num(AsInt(rule_row[n])), Num(payoff_row[n]))]

\* variant of line 59 with one cumulative sum: np.cumsum(stopping_rule, axis=0) == 1
FormatStoppingRule_SingleCumSum(sr) ==
    LET c == CumSum(BoolToInt(sr))
    IN  [jj \in DOMAIN sr |-> [n \in DOMAIN sr[jj] |-> c[jj][n] = 1]]

\* variant of line 59 that sums from the last row up, keeping the latest mark
FormatStoppingRule_KeepLast(sr) ==
    [jj \in DOMAIN sr |-> [n \in DOMAIN sr[jj] |->
        sr[jj][n] /\ \A i \in DOMAIN sr : i > jj => ~sr[i][n]]]

\* line 59: np.cumsum(np.cumsum(stopping_rule, axis=0), axis=0) == 1
FormatStoppingRule(sr) ==
    LET c == CumSum(CumSum(BoolToInt(sr)))
    IN  [jj \in DOMAIN sr |-> [n \in DOMAIN sr[jj] |-> c[jj][n] = 1]]

\* variant without line 60: the cashflow matrix is left as the sweep wrote it
FormatCashflow_Skipped(sr, cf) == cf

\* line 60: stopping_rule * cashflow
FormatCashflow(sr, cf) ==
    [jj \in DOMAIN cf |-> [n \in DOMAIN cf[jj] |-> Mul(Num(AsInt(sr[jj][n])), cf[jj][n])]]

\* line 63: np.mean(cashflow.T @ np.cumprod(discount_factor))
RECURSIVE SumOver(_, _)
SumOver(f, S) ==
    IF S = {} THEN 0
    ELSE LET pick == CHOOSE c \in S : TRUE IN f[pick] + SumOver(f, S \ {pick})

\* variant of line 63 with np.sum in place of np.mean
Price_Sum(cf, df, cols) ==
    LET cp    == CumProd(df)
        cells == (DOMAIN cf) \X (0..(cols - 1))
        prod  == [c \in cells |-> Mul(cf[c[1]][c[2]], cp[c[1]])]
        bad   == \E c \in cells : prod[c].nan
        exps  == {prod[c].e : c \in cells}
        coef(e) == SumOver([c \in cells |-> IF prod[c].e = e THEN prod[c].v ELSE 0], cells)
    IN  [nan   |-> bad,
         terms |-> IF bad THEN {} ELSE {<<e, coef(e)>> : e \in {x \in exps : coef(x) # 0}},
         den   |-> 1]

Price(cf, df, cols) ==
    LET cp    == CumProd(df)
        cells == (DOMAIN cf) \X (0..(cols - 1))
        prod  == [c \in cells |-> Mul(cf[c[1]][c[2]], cp[c[1]])]
        bad   == \E c \in cells : prod[c].nan
        exps  == {prod[c].e : c \in cells}
        coef(e) == SumOver([c \in cells |-> IF prod[c].e = e THEN prod[c].v ELSE 0], cells)
    IN  [nan   |-> bad,
         terms |-> IF bad THEN {} ELSE {<<e, coef(e)>> : e \in {x \in exps : coef(x) # 0}},
         den   |-> cols]

NoPrice == [nan |-> FALSE, terms |-> {}, den |-> 0]

Event(op, jj, x, y, ret) == [op |-> op, j |-> jj, x |-> x, y |-> y, ret |-> ret]

----------------------------------------------------------------------------
(* Inputs. *)

\* a time grid of length L starting at 0 whose steps are d[0], d[1], ...
RECURSIVE GridPoint(_, _)
GridPoint(d, i) == IF i = 0 THEN 0 ELSE GridPoint(d, i - 1) + d[i - 1]

Grid(d, L) == [i \in 0..(L - 1) |-> GridPoint(d, i)]

Init ==
    /\ pc = "start"
    /\ r \in RVals
    /\ \/ /\ t_ndim \in TNdims \ {1}
          /\ t = Unset
       \/ /\ t_ndim = 1
          /\ \E L \in 0..(MaxM + 1) : \E d \in [0..(L - 2) -> DtVals] : t = Grid(d, L)
    /\ \/ /\ X_ndim \in XNdims \ {2}
          /\ X_len = 0
          /\ X_cols = 0
       \/ /\ X_ndim = 2
          /\ X_len \in 0..(MaxM + 1)
          /\ X_cols \in 1..MaxN
          /\ X_len * X_cols <= MaxCells
    /\ M = 0
    /\ N = 0
    /\ discount_factor = Unset
    /\ payoff = Unset
    /\ stopping_rule = Unset
    /\ cashflow = Unset
    /\ j = 0
    /\ price = NoPrice
    /\ err = NoError
    /\ calls = << >>
    /\ provisional = Unset

----------------------------------------------------------------------------
(* The steps of lsmc. *)

\* lines 22-24
CheckShapes ==
    /\ pc = "start"
    /\ LET line == FailedAssertion(t_ndim, t, X_ndim, X_len)
       IN  IF line # 0
           THEN /\ pc' = "failed"
                /\ err' = [type |-> "AssertionError", line |-> line]
           ELSE /\ pc' = "initiate"
                /\ err' = err
    /\ UNCHANGED <<t_ndim, t, X_ndim, X_len, X_cols, r, M, N, discount_factor, payoff,
                   stopping_rule, cashflow, j, price, calls, provisional>>

\* lines 26-40
Initiate ==
    /\ pc = "initiate"
    /\ M' = Length(t) - 1
    /\ N' = X_cols
    /\ discount_factor' = DiscountFactor(r, Diff(t))
    /\ payoff' \in [0..(X_len - 1) -> [0..(X_cols - 1) -> PayoffVals]]
    /\ calls' = IF M' >= 1
                THEN <<Event("payoff_func", 0, << >>, << >>, << >>),
                       Event("cashflow", M' - 1, << >>, << >>, << >>)>>
                ELSE <<Event("payoff_func", 0, << >>, << >>, << >>)>>
    /\ IF M' < 0
       THEN \* line 36: np.full((M, N), False) with M = -1
            /\ pc' = "failed"
            /\ err' = [type |-> "ValueError", line |-> 36]
            /\ UNCHANGED <<stopping_rule, cashflow, j>>
       ELSE IF M' = 0
       THEN \* line 40: cashflow[-1, :] of an array with no rows
            /\ pc' = "failed"
            /\ err' = [type |-> "IndexError", line |-> 40]
            /\ UNCHANGED <<stopping_rule, cashflow, j>>
       ELSE /\ stopping_rule' =
                [Full(M', N', FALSE) EXCEPT ![M' - 1] = TerminalRule(payoff'[M'])]
            /\ cashflow' =
                [Full(M', N', NaN) EXCEPT ![M' - 1] = TerminalCashflow(payoff'[M'])]
            /\ j' = M' - 1
            /\ pc' = "loop"
            /\ err' = err
    /\ UNCHANGED <<t_ndim, t, X_ndim, X_len, X_cols, r, price, provisional>>

\* lines 42-56: one iteration of `for j in range(M-1, 0, -1)`
Step ==
    /\ pc = "loop"
    /\ j >= 1
    /\ LET itm      == Itm(payoff[j])
           x        == Take(XRow(j, N), itm)
           y        == FitTargets(cashflow, discount_factor, j, itm)
           exercise == Take(payoff[j], itm)
       IN  \E EV_cont \in [DOMAIN x -> EVVals] :
              LET rule_row == Put(stopping_rule[j - 1], itm,
                                  ExerciseDecision(exercise, EV_cont))
              IN  /\ stopping_rule' = [stopping_rule EXCEPT ![j - 1] = rule_row]
                  /\ cashflow' = [cashflow EXCEPT ![j - 1] = StepCashflow(rule_row, payoff[j])]
                  /\ calls' = calls \o <<Event("fit_func", j, x, y, << >>),
                                         Event("pred_func", j, x, << >>, EV_cont),
                                         Event("cashflow", j - 1, << >>, << >>, << >>)>>
    /\ j' = j - 1
    /\ UNCHANGED <<pc, t_ndim, t, X_ndim, X_len, X_cols, r, M, N, discount_factor, payoff,
                   price, err, provisional>>

\* lines 46 and 50: an exception raised by fit_func or pred_func is not
\* caught and ends the call
StepRaises ==
    /\ pc = "loop"
    /\ j >= 1
    /\ \E line \in {46, 50} :
          LET itm == Itm(payoff[j])
              x   == Take(XRow(j, N), itm)
              y   == FitTargets(cashflow, discount_factor, j, itm)
          IN  /\ err' = [type |-> "EstimatorError", line |-> line]
              /\ calls' = IF line = 46
                          THEN Append(calls, Event("fit_func", j, x, y, << >>))
                          ELSE calls \o <<Event("fit_func", j, x, y, << >>),
                                          Event("pred_func", j, x, << >>, << >>)>>
    /\ pc' = "failed"
    /\ UNCHANGED <<t_ndim, t, X_ndim, X_len, X_cols, r, M, N, discount_factor, payoff,
                   stopping_rule, cashflow, j, price, provisional>>

\* lines 59-60, once the range is exhausted
Format ==
    /\ pc = "loop"
    /\ j < 1
    /\ provisional' = stopping_rule
    /\ stopping_rule' = FormatStoppingRule(stopping_rule)
    /\ cashflow' = FormatCashflow(stopping_rule', cashflow)
    /\ pc' = "price"
    /\ UNCHANGED <<t_ndim, t, X_ndim, X_len, X_cols, r, M, N, discount_factor, payoff,
                   j, price, err, calls>>

\* lines 63-65
Return ==
    /\ pc = "price"
    /\ price' = Price(cashflow, discount_factor, N)
    /\ pc' = "done"
    /\ UNCHANGED <<t_ndim, t, X_ndim, X_len, X_cols, r, M, N, discount_factor, payoff,
                   stopping_rule, cashflow, j, err, calls, provisional>>

Next == CheckShapes \/ Initiate \/ Step \/ StepRaises \/ Format \/ Return

Spec == Init /\ [][Next]_vars

----------------------------------------------------------------------------
(* Vocabulary of the properties. *)

Finalized == pc \in {"price", "done"}

Done == pc = "done"

Rows == 0..(M - 1)

Paths == 0..(N - 1)

\* the stopping rule as the sweep wrote it, before the collapse of line 59
Swept == IF Finalized THEN provisional ELSE stopping_rule

TrueRows(rule, n) == {jj \in Rows : rule[jj][n]}

CallsOf(op) == {p \in 1..Len(calls) : calls[p].op = op}

\* the pred_func call recorded at p returned: the sweep went on to line 56
Returned(p) == p < Len(calls) /\ calls[p + 1].op = "cashflow"

\* the paths whose X entries an estimator call received
PathsOf(ev) == {ev.x[k][2] : k \in DOMAIN ev.x}

\* position, in an estimator call's arguments, of path n
ArgOf(ev, n) == CHOOSE k \in DOMAIN ev.x : ev.x[k][2] = n

\* a path out of the money at every date t_0..t_M
ZeroPath(n) == \A jj \in 0..M : payoff[jj][n] = 0

\* the fit calls among the first p recorded events
FitsUpTo(p) == {q \in CallsOf("fit_func") : q <= p}

ShapeViolation == t_ndim # 1 \/ X_ndim # 2 \/ X_len # Length(t)

StrictlyIncreasing(a) == \A i \in 0..(Length(a) - 2) : a[i] < a[i + 1]

\* what the recorded history of a sweep must look like (used by C10)
SweepHistory ==
    /\ \A p \in CallsOf("fit_func") :
          LET ev == calls[p]
          IN  /\ ev.j = M - Cardinality(FitsUpTo(p))
              /\ ev.j >= 1
              /\ p > 1
              /\ calls[p - 1].op = "cashflow"
              /\ calls[p - 1].j = ev.j
              /\ Cardinality({q \in CallsOf("cashflow") : calls[q].j = ev.j}) = 1
              /\ \A k \in DOMAIN ev.y :
                    /\ ~ev.y[k].nan
                    /\ pc = "loop" =>
                          ev.y[k] = Mul(cashflow[ev.j][ev.x[k][2]],
                                        Exp(-(r * (t[ev.j + 1] - t[ev.j]))))
    /\ pc = "loop" => j = M - 1 - Cardinality(CallsOf("fit_func")) /\ j >= 0
    /\ Finalized => Cardinality(CallsOf("fit_func")) = M - 1

\* what one step of lsmc may do to the loop variable (used by C10): inside
\* the loop j goes down by one per iteration, and with the range exhausted
\* the call leaves the loop and calls the estimator no more
SweepStep ==
    /\ (pc = "loop" /\ j >= 1) =>
          \/ pc' = "loop" /\ j' = j - 1 /\ j' >= 0
          \/ pc' = "failed"
    /\ (pc = "loop" /\ j < 1) => pc' = "price"
    /\ Finalized => Finalized' /\ calls' = calls

\* explicit index scan: keep, per path, the first true entry
FirstTrueScan(P) ==
    [jj \in DOMAIN P |-> [n \in DOMAIN P[jj] |->
        P[jj][n] /\ \A i \in 0..(jj - 1) : ~P[i][n]]]

----------------------------------------------------------------------------
(* The claims. *)

\* C1: in the finalized Stopping-Rule matrix every path (column) has at most
\* one true entry among the rows 0..M-1.
C1_AtMostOneStoppingTime ==
    Finalized => \A n \in Paths : Cardinality(TrueRows(stopping_rule, n)) <= 1

\* C1 witness: a path the sweep marked at two dates is left with one mark.
C1_Witness ==
    /\ Finalized
    /\ \E n \in Paths : /\ Cardinality(TrueRows(provisional, n)) >= 2
                        /\ Cardinality(TrueRows(stopping_rule, n)) = 1

\* C2: in the finalized matrices cashflow(j, n) is payoff(j+1, n) where the
\* finalized stopping_rule(j, n) is true and 0 where it is false; so every
\* entry is a number (not NaN) and is >= 0.
C2_CashflowFollowsRule ==
    Finalized =>
        \A jj \in Rows : \A n \in Paths :
            /\ cashflow[jj][n] =
                   IF stopping_rule[jj][n] THEN Num(payoff[jj + 1][n]) ELSE Num(0)
            /\ ~cashflow[jj][n].nan
            /\ cashflow[jj][n].v >= 0

\* C2 witness: one path's provisional cashflow at a later date was zeroed by
\* the collapse while its earlier exercise keeps a positive payoff.
C2_Witness ==
    /\ Finalized
    /\ \E n \in Paths : \E j1, j2 \in Rows :
          /\ j1 < j2
          /\ stopping_rule[j1][n] /\ cashflow[j1][n] = Num(payoff[j1 + 1][n])
          /\ payoff[j1 + 1][n] > 0
          /\ provisional[j2][n] /\ payoff[j2 + 1][n] > 0
          /\ ~stopping_rule[j2][n] /\ cashflow[j2][n] = Num(0)

\* C3: a path in the money at the final date t_M with no true entry in the
\* finalized rows 0..M-2 has a true terminal entry stopping_rule(M-1, n).
C3_TerminalExercise ==
    Finalized =>
        \A n \in Paths :
            (payoff[M][n] > 0 /\ \A jj \in 0..(M - 2) : ~stopping_rule[jj][n])
                => stopping_rule[M - 1][n]

\* C3 witness: a path that was in the money at an interior date, was not
\* exercised there, and is exercised at maturity.
C3_Witness ==
    /\ Finalized
    /\ M >= 2
    /\ \E n \in Paths :
          /\ payoff[M][n] > 0
          /\ \E jj \in 1..(M - 1) : payoff[jj][n] > 0
          /\ \A jj \in 0..(M - 2) : ~stopping_rule[jj][n]
          /\ stopping_rule[M - 1][n]

\* C9: the double cumulative-sum collapse equals the explicit scan that keeps,
\* per path, the first true entry of the provisional Stopping-Rule:
\* finalized(j, n) iff provisional(j, n) and no provisional(i, n) for i < j.
C9_CollapseIsFirstTrueScan ==
    Finalized => stopping_rule = FirstTrueScan(provisional)

\* C9 witness: a provisional column false, true, true collapses to its
\* first mark.
C9_Witness ==
    /\ Finalized
    /\ M >= 3
    /\ \E n \in Paths :
          /\ ~provisional[0][n] /\ provisional[1][n] /\ provisional[2][n]
          /\ stopping_rule[1][n] /\ ~stopping_rule[2][n]
\* C4: a path whose payoff is 0 at every date t_0..t_M is never handed to the
\* estimator, has an all-false Stopping-Rule column and an all-zero Cashflow
\* column, and so adds 0 discounted cashflow; when every path is such a path
\* the Stopping-Rule is entirely false and the returned price is exactly 0.
C4_ZeroPathContributesNothing ==
    /\ Finalized =>
          \A n \in Paths : ZeroPath(n) =>
              /\ \A jj \in Rows :
                    /\ ~provisional[jj][n]
                    /\ ~stopping_rule[jj][n]
                    /\ cashflow[jj][n] = Num(0)
                    /\ Mul(cashflow[jj][n], ProdTo(discount_factor, jj)) = Num(0)
              /\ \A p \in CallsOf("fit_func") \cup CallsOf("pred_func") :
                    n \notin PathsOf(calls[p])
    /\ (Done /\ \A n \in Paths : ZeroPath(n)) =>
          /\ \A jj \in Rows : \A n \in Paths : ~stopping_rule[jj][n]
          /\ price = [nan |-> FALSE, terms |-> {}, den |-> N]

\* C4 witness: two interior dates, a discounting rate, every payoff 0, and the
\* price returned is 0.
C4_Witness ==
    /\ Done
    /\ M >= 3
    /\ r = 1
    /\ StrictlyIncreasing(t)
    /\ \A n \in Paths : ZeroPath(n)
    /\ Cardinality(CallsOf("pred_func")) = 2
    /\ price.terms = {} /\ ~price.nan

\* C5: when the time grid is not 1-dimensional, the price matrix is not
\* 2-dimensional or the row counts differ, lsmc fails on an assertion before
\* anything is computed: no callback is called and no price is returned.
C5_ShapeErrorFailsFast ==
    ShapeViolation =>
        /\ pc \in {"start", "failed"}
        /\ pc = "failed" => err.type = "AssertionError" /\ err.line \in {22, 23, 24}
        /\ calls = << >>
        /\ payoff = Unset /\ stopping_rule = Unset /\ cashflow = Unset
        /\ price = NoPrice

\* C5 witness: a 2-dimensional price matrix whose row count differs from the
\* length of a 1-dimensional time grid has been rejected by line 24.
C5_Witness ==
    /\ pc = "failed"
    /\ t_ndim = 1 /\ X_ndim = 2 /\ X_len # Length(t)
    /\ err = [type |-> "AssertionError", line |-> 24]
    /\ calls = << >>

\* C6: every time grid that is not strictly increasing, and every time grid
\* of length less than 2, is rejected with the shape error before any
\* computation, also when the price matrix has as many rows as the grid.
C6_GridPreconditionRejected ==
    (/\ t_ndim = 1 /\ X_ndim = 2 /\ X_len = Length(t)
     /\ (Length(t) < 2 \/ ~StrictlyIncreasing(t)))
        => /\ pc # "done"
           /\ pc = "failed" => err.type = "AssertionError"
           /\ calls = << >>

\* C7: with only a terminal exercise date (M = 1) the estimator is never
\* called, the Stopping-Rule is the row payoff(1, n) > 0, the Cashflow is the
\* row payoff(1, n), and the price is the one-step discount factor
\* exp(-r (t_1 - t_0)) times the mean of payoff(1, n) over the paths.
C7_TerminalDateOnly ==
    (Done /\ M = 1) =>
        LET total == SumOver(payoff[1], Paths)
        IN  /\ CallsOf("fit_func") = {}
            /\ CallsOf("pred_func") = {}
            /\ stopping_rule = [jj \in {0} |-> [n \in Paths |-> payoff[1][n] > 0]]
            /\ cashflow = [jj \in {0} |-> [n \in Paths |-> Num(payoff[1][n])]]
            /\ price = [nan   |-> FALSE,
                        terms |-> IF total = 0 THEN {}
                                  ELSE {<<-(r * (t[1] - t[0])), total>>},
                        den   |-> N]

\* C7 witness: the scenario t = [0, 1], three paths with terminal payoffs
\* 10, 0, 2: rule true, false, true; cashflow 10, 0, 2; price exp(-r) 12 / 3.
C7_Witness ==
    /\ Done
    /\ M = 1 /\ N = 3 /\ r = 1
    /\ t = [i \in {0, 1} |-> i]
    /\ payoff[1] = [n \in 0..2 |-> IF n = 0 THEN 10 ELSE IF n = 1 THEN 0 ELSE 2]
    /\ stopping_rule[0] = [n \in 0..2 |-> n # 1]
    /\ cashflow[0] = [n \in 0..2 |-> Num(IF n = 0 THEN 10 ELSE IF n = 1 THEN 0 ELSE 2)]
    /\ price = [nan |-> FALSE, terms |-> {<<-1, 12>>}, den |-> 3]
    /\ calls = <<Event("payoff_func", 0, << >>, << >>, << >>),
                 Event("cashflow", 0, << >>, << >>, << >>)>>

\* C8: at every interior date t_j the estimator receives exactly the paths in
\* the money at t_j, and the sweep writes stopping_rule(j-1, n) true iff
\* payoff(j, n) > 0 and payoff(j, n) is strictly greater than the predicted
\* continuation value; ties and out-of-the-money paths are not marked.
C8_ExerciseIffStrictlyGreater ==
    \A p \in CallsOf("pred_func") :
        LET ev == calls[p]
        IN  /\ PathsOf(ev) = {n \in Paths : payoff[ev.j][n] > 0}
            /\ calls[p - 1].op = "fit_func"
            /\ calls[p - 1].j = ev.j
            /\ calls[p - 1].x = ev.x
            /\ Returned(p) =>
                \A n \in Paths :
                  Swept[ev.j - 1][n] <=>
                      /\ payoff[ev.j][n] > 0
                      /\ ~ev.ret[ArgOf(ev, n)].nan
                      /\ payoff[ev.j][n] > ev.ret[ArgOf(ev, n)].v

\* C8 witness: at one interior date one path ties with its predicted
\* continuation value and is not marked, another exceeds it and is marked.
C8_Witness ==
    \E p \in CallsOf("pred_func") :
        LET ev == calls[p]
        IN  \E n1, n2 \in PathsOf(ev) :
               /\ Returned(p)
               /\ Num(payoff[ev.j][n1]) = ev.ret[ArgOf(ev, n1)]
               /\ ~Swept[ev.j - 1][n1]
               /\ ~ev.ret[ArgOf(ev, n2)].nan
               /\ payoff[ev.j][n2] > ev.ret[ArgOf(ev, n2)].v
               /\ Swept[ev.j - 1][n2]

\* C10: the sweep fits at j = M-1, M-2, ..., 1 in that order, once each, and
\* then ends; the fit at j is handed cashflow(j, n) * discount_factor(j) for
\* the in-the-money paths, where row j was written by the step just before
\* (and by no other step of the sweep), so no target is NaN.
C10_BackwardSweep == []SweepHistory /\ [][SweepStep]_vars

\* C10 witness: a finished call with three exercise dates whose two fits, at
\* j = 2 and then j = 1, both received targets.
C10_Witness ==
    /\ Done
    /\ M = 3
    /\ \E p, q \in CallsOf("fit_func") :
          /\ p < q
          /\ calls[p].j = 2 /\ calls[q].j = 1
          /\ DOMAIN calls[p].y # {} /\ DOMAIN calls[q].y # {}
          /\ calls[q].y[0].v > 0 /\ calls[q].y[0].e = -1

====
